---- MODULE Spec2Model ----
(***************************************************************************)
(* simpleAtomicWorkerPool: AtomicArray<J> (append / fetch / emptyOut), the *)
(* worker loop threadFunction, and the dispatcher's createThreads,         *)
(* dispatchJobs and endThreads, as one state machine.  One step is one     *)
(* access to memory shared between the dispatcher and the workers.         *)
(***************************************************************************)
EXTENDS Integers, Sequences, FiniteSets, TLC

VARIABLES
    heap,            \* allocated arrays of J, in allocation order (freed ones kept)
    backingArray,    \* AtomicArray::backingArray, an index into heap
    size,            \* AtomicArray::size
    tailCursor,      \* AtomicArray::tailCursor (plain int)
    headCursor,      \* AtomicArray::headCursor (std::atomic_int)
    worker_start,    \* AtomicArray::worker_start
    worker_end,      \* AtomicArray::worker_end
    dispatcher_wake, \* AtomicArray::dispatcher_wake
    requested,       \* threadNumber argument given to createThreads / endThreads
    hardware,        \* std::thread::hardware_concurrency()
    threadNumber,    \* createThreads' threadNumber after clamping (0 before the call)
    dpc,             \* dispatcher thread: position in main / append / dispatchJobs / endThreads
    index,           \* append's local `index`
    joined,          \* endThreads' loop counter i; number of threads joined
    wpc,             \* worker thread -> position in threadFunction
    windex,          \* worker thread -> fetch's local `index`
    job,             \* worker thread -> array (index into heap) of the J* fetch returned, 0 = none
    running,         \* worker thread -> job the work function was invoked on, -1 = none
    round,           \* number of dispatchJobs calls that have returned
    batch,           \* jobs appended since the last dispatchJobs returned, in order
    executed         \* job -> number of invocations of the work function on it (saturating at 2)

vars == <<heap, backingArray, size, tailCursor, headCursor, worker_start, worker_end,
          dispatcher_wake, requested, hardware, threadNumber, dpc, index, joined,
          wpc, windex, job, running, round, batch, executed>>

bufferVars == <<heap, backingArray, size, tailCursor, headCursor>>
gateVars == <<worker_start, worker_end, dispatcher_wake>>
paramVars == <<requested, hardware>>
workerVars == <<wpc, windex, job, running>>
ghostVars == <<round, batch, executed>>

\* ---------------------------------------------------------------- bounds
MaxWorkers == 2      \* hardware parallelism of the modelled machine
MaxJobs == 2         \* appends per round
MaxRounds == 2       \* dispatchJobs calls per run
MaxInitSize == 1     \* largest constructor argument `size`
MaxRequest == 4      \* thread counts requested in SpecClamp: -MaxRequest..MaxRequest
IntBits == 3         \* width of the int cursor in SpecWrap (two's complement)

Garbage == 0
MaxJobId == MaxRounds * MaxJobs
JobIds == 1..MaxJobId
\* headCursor is capped so the model is finite.  After emptyOut and outside an open
\* start gate every worker performs at most one exhausted fetch per pass, so this many
\* fetches are only exceeded while a worker spins on an open gate.
MaxHead == MaxJobs + 2 * MaxWorkers + 1

Min(a, b) == IF a < b THEN a ELSE b
Max(a, b) == IF a > b THEN a ELSE b
Workers == 1..Max(threadNumber, 0)

\* ------------------------------------------------- lockless_sleep_and_wake
\* sleep(word) returns only once the word is nonzero; check and block are atomic.
sleep(word) == word # 0
\* wake_all(word) sets the word nonzero; every thread parked on it becomes runnable.
wake_all == 1

\* ------------------------------------------------------------ construction
\* AtomicArray(int size)
AtomicArray(n) ==
    /\ size = n
    /\ heap = << [i \in 1..n |-> Garbage] >>
    /\ backingArray = 1
    /\ tailCursor = 0
    /\ headCursor = 0
    /\ worker_start = 0
    /\ worker_end = 0
    /\ dispatcher_wake = 0

\* threadNumber = min(threadNumber, hardware_concurrency); if(!threadNumber) threadNumber = 1
ClampThreadNumber(req, hw) ==
    LET t == Min(req, hw) IN IF t = 0 THEN 1 ELSE t

Start(reqs, hws) ==
    /\ \E n \in 1..MaxInitSize : AtomicArray(n)
    /\ requested \in reqs
    /\ hardware \in hws
    /\ threadNumber = 0
    /\ dpc = "create"
    /\ index = 0
    /\ joined = 0
    /\ wpc = [w \in 1..MaxWorkers |-> "unborn"]
    /\ windex = [w \in 1..MaxWorkers |-> 0]
    /\ job = [w \in 1..MaxWorkers |-> 0]
    /\ running = [w \in 1..MaxWorkers |-> -1]
    /\ round = 0
    /\ batch = << >>
    /\ executed = [j \in 0..MaxJobId |-> 0]

Init == Start(1..MaxWorkers, {MaxWorkers})

\* ------------------------------------------------------------ createThreads
\* A negative clamped count makes `new std::thread[threadNumber]` throw: no worker
\* is spawned and the program ends.
createThreads ==
    /\ dpc = "create"
    /\ LET n == ClampThreadNumber(requested, hardware) IN
        /\ threadNumber' = n
        /\ worker_start' = 0
        /\ IF n < 0
           THEN /\ dpc' = "aborted"
                /\ wpc' = wpc
           ELSE /\ dpc' = "idle"
                /\ wpc' = [w \in 1..MaxWorkers |-> IF w <= n THEN "sleep" ELSE "unborn"]
    /\ UNCHANGED <<bufferVars, worker_end, dispatcher_wake, paramVars, index, joined,
                   windex, job, running, ghostVars>>

\* ------------------------------------------------------------------ append
\* The job the caller hands to the next append: every appended job is distinct.
NextJob == round * MaxJobs + Len(batch) + 1

\* int index = tailCursor; ++tailCursor; if(index==size)
appendCursor ==
    /\ dpc = "idle"
    /\ round < MaxRounds
    /\ Len(batch) < MaxJobs
    /\ index' = tailCursor
    /\ tailCursor' = tailCursor + 1
    /\ dpc' = IF tailCursor = size THEN "append_new" ELSE "append_store"
    /\ UNCHANGED <<heap, backingArray, size, headCursor, gateVars, paramVars,
                   threadNumber, joined, workerVars, ghostVars>>

\* J* oldArray = backingArray; backingArray = new J[size*2];
appendNew ==
    /\ dpc = "append_new"
    /\ heap' = Append(heap, [i \in 1..(size * 2) |-> Garbage])
    /\ backingArray' = Len(heap) + 1
    /\ dpc' = "append_memcpy"
    /\ UNCHANGED <<size, tailCursor, headCursor, gateVars, paramVars, threadNumber,
                   index, joined, workerVars, ghostVars>>

\* std::memcpy(backingArray, oldArray, size * sizeof(J)); size = size*2;
appendMemcpy ==
    /\ dpc = "append_memcpy"
    /\ heap' = [heap EXCEPT ![backingArray] =
                   [i \in 1..(size * 2) |->
                       IF i <= size THEN heap[backingArray - 1][i] ELSE @[i]]]
    /\ size' = size * 2
    /\ dpc' = "append_delete"
    /\ UNCHANGED <<backingArray, tailCursor, headCursor, gateVars, paramVars,
                   threadNumber, index, joined, workerVars, ghostVars>>

\* delete[] oldArray;
appendDelete ==
    /\ dpc = "append_delete"
    /\ dpc' = "append_store"
    /\ UNCHANGED <<bufferVars, gateVars, paramVars, threadNumber, index, joined,
                   workerVars, ghostVars>>

\* std::memcpy(backingArray + index, &element, sizeof(J)); return backingArray + index;
appendStore ==
    /\ dpc = "append_store"
    /\ heap' = [heap EXCEPT ![backingArray][index + 1] = NextJob]
    /\ batch' = Append(batch, NextJob)
    /\ index' = 0
    /\ dpc' = "idle"
    /\ UNCHANGED <<backingArray, size, tailCursor, headCursor, gateVars, paramVars,
                   threadNumber, joined, workerVars, round, executed>>

\* An array is freed once append has passed delete[] oldArray.
Freed(a) ==
    /\ a < backingArray
    /\ ~(dpc \in {"append_memcpy", "append_delete"} /\ a = backingArray - 1)

\* What a read of slot i of array a can yield: the slot's content, or anything at
\* all when the slot lies outside the array or the array has been freed.
Deref(a, i) ==
    IF i < 0 \/ i + 1 > Len(heap[a]) THEN {Garbage}
    ELSE IF Freed(a) THEN {Garbage, heap[a][i + 1]}
    ELSE {heap[a][i + 1]}

\* ------------------------------------------------------------------- fetch
\* int index = headCursor.fetch_add(1);
fetchAdd(w) ==
    /\ wpc[w] = "fetch"
    /\ headCursor < MaxHead
    /\ windex' = [windex EXCEPT ![w] = headCursor]
    /\ headCursor' = headCursor + 1
    /\ wpc' = [wpc EXCEPT ![w] = "compare"]
    /\ UNCHANGED <<heap, backingArray, size, tailCursor, gateVars, paramVars,
                   threadNumber, dpc, index, joined, job, running, ghostVars>>

\* x as an IntBits-wide two's complement integer.
WrapInt(x) ==
    LET m == 2 ^ IntBits
        r == x % m
    IN IF r >= m \div 2 THEN r - m ELSE r

\* int index = headCursor.fetch_add(1); on an IntBits-wide std::atomic_int, whose
\* fetch_add wraps around
fetchAddWrap(w) ==
    /\ wpc[w] = "fetch"
    /\ windex' = [windex EXCEPT ![w] = headCursor]
    /\ headCursor' = WrapInt(headCursor + 1)
    /\ wpc' = [wpc EXCEPT ![w] = "compare"]
    /\ UNCHANGED <<heap, backingArray, size, tailCursor, gateVars, paramVars,
                   threadNumber, dpc, index, joined, job, running, ghostVars>>

\* Mutant of Exhausted: the comparison written with > instead of >=.
ExhaustedStrict(i, tail) == i > tail

\* if(index>=tailCursor) return nullptr;
Exhausted(i, tail) == i >= tail

\* if(index>=tailCursor) return nullptr; return backingArray + index;
\* and threadFunction's if(!job)
fetchReturn(w) ==
    /\ wpc[w] = "compare"
    /\ IF Exhausted(windex[w], tailCursor)
       THEN /\ wpc' = [wpc EXCEPT ![w] = "wake"]
            /\ windex' = [windex EXCEPT ![w] = 0]
            /\ job' = job
       ELSE /\ wpc' = [wpc EXCEPT ![w] = "call"]
            /\ windex' = windex
            /\ job' = [job EXCEPT ![w] = backingArray]
    /\ UNCHANGED <<bufferVars, gateVars, paramVars, threadNumber, dpc, index, joined,
                   running, ghostVars>>

\* ----------------------------------------------------------- threadFunction
\* sleep(atomicArray.worker_start);
workerSleep(w) ==
    /\ wpc[w] = "sleep"
    /\ sleep(worker_start)
    /\ wpc' = [wpc EXCEPT ![w] = "check_end"]
    /\ UNCHANGED <<bufferVars, gateVars, paramVars, threadNumber, dpc, index, joined,
                   windex, job, running, ghostVars>>

\* Mutant of workerCheckEnd: the thread function returns without testing the stop flag.
workerCheckEndUntested(w) ==
    /\ wpc[w] = "check_end"
    /\ wpc' = [wpc EXCEPT ![w] = "returned"]
    /\ UNCHANGED <<bufferVars, gateVars, paramVars, threadNumber, dpc, index, joined,
                   windex, job, running, ghostVars>>

\* if(atomicArray.worker_end.load()) return;
workerCheckEnd(w) ==
    /\ wpc[w] = "check_end"
    /\ wpc' = [wpc EXCEPT ![w] = IF worker_end # 0 THEN "returned" ELSE "fetch"]
    /\ UNCHANGED <<bufferVars, gateVars, paramVars, threadNumber, dpc, index, joined,
                   windex, job, running, ghostVars>>

\* worker(*job): the work function is entered and reads the job it was given.
workerCall(w) ==
    /\ wpc[w] = "call"
    /\ \E j \in Deref(job[w], windex[w]) :
        /\ running' = [running EXCEPT ![w] = j]
        /\ executed' = [executed EXCEPT ![j] = Min(@ + 1, 2)]
    /\ wpc' = [wpc EXCEPT ![w] = "working"]
    /\ UNCHANGED <<bufferVars, gateVars, paramVars, threadNumber, dpc, index, joined,
                   windex, job, round, batch>>

\* worker(*job) returns; the drain loop goes back to fetch.
workerReturn(w) ==
    /\ wpc[w] = "working"
    /\ running' = [running EXCEPT ![w] = -1]
    /\ windex' = [windex EXCEPT ![w] = 0]
    /\ job' = [job EXCEPT ![w] = 0]
    /\ wpc' = [wpc EXCEPT ![w] = "fetch"]
    /\ UNCHANGED <<bufferVars, gateVars, paramVars, threadNumber, dpc, index, joined,
                   ghostVars>>

\* Mutant of workerWake: the worker leaves the drain loop without signalling the
\* dispatcher.
workerWakeLost(w) ==
    /\ wpc[w] = "wake"
    /\ wpc' = [wpc EXCEPT ![w] = "sleep"]
    /\ UNCHANGED <<bufferVars, gateVars, paramVars, threadNumber, dpc, index, joined,
                   windex, job, running, ghostVars>>

\* wake_all(atomicArray.dispatcher_wake); break;
workerWake(w) ==
    /\ wpc[w] = "wake"
    /\ dispatcher_wake' = wake_all
    /\ wpc' = [wpc EXCEPT ![w] = "sleep"]
    /\ UNCHANGED <<bufferVars, worker_start, worker_end, paramVars, threadNumber, dpc,
                   index, joined, windex, job, running, ghostVars>>

threadFunction(w) ==
    \/ workerSleep(w)
    \/ workerCheckEnd(w)
    \/ fetchAdd(w)
    \/ fetchReturn(w)
    \/ workerCall(w)
    \/ workerReturn(w)
    \/ workerWake(w)

\* ------------------------------------------------------------ dispatchJobs
\* wake_all(atomicArray.worker_start);
dispatchWakeAll ==
    /\ dpc = "idle"
    /\ round < MaxRounds
    /\ worker_start' = wake_all
    /\ dpc' = "dispatch_sleep"
    /\ UNCHANGED <<bufferVars, worker_end, dispatcher_wake, paramVars, threadNumber,
                   index, joined, workerVars, ghostVars>>

\* sleep(atomicArray.dispatcher_wake);
dispatchSleep ==
    /\ dpc = "dispatch_sleep"
    /\ sleep(dispatcher_wake)
    /\ dpc' = "dispatch_store"
    /\ UNCHANGED <<bufferVars, gateVars, paramVars, threadNumber, index, joined,
                   workerVars, ghostVars>>

\* Mutant of dispatchStore: dispatchJobs goes on to emptyOut without clearing the
\* start gate.
dispatchStoreLost ==
    /\ dpc = "dispatch_store"
    /\ dpc' = "empty_tail"
    /\ UNCHANGED <<bufferVars, gateVars, paramVars, threadNumber, index, joined,
                   workerVars, ghostVars>>

\* atomicArray.worker_start.store(0);
dispatchStore ==
    /\ dpc = "dispatch_store"
    /\ worker_start' = 0
    /\ dpc' = "empty_tail"
    /\ UNCHANGED <<bufferVars, worker_end, dispatcher_wake, paramVars, threadNumber,
                   index, joined, workerVars, ghostVars>>

\* Mutant of emptyOutTail: the reset also shrinks the capacity back to the initial one.
emptyOutTailShrink ==
    /\ dpc = "empty_tail"
    /\ tailCursor' = 0
    /\ size' = Len(heap[1])
    /\ dpc' = "empty_head"
    /\ UNCHANGED <<heap, backingArray, headCursor, gateVars, paramVars,
                   threadNumber, index, joined, workerVars, ghostVars>>

\* emptyOut: tailCursor = 0;
emptyOutTail ==
    /\ dpc = "empty_tail"
    /\ tailCursor' = 0
    /\ dpc' = "empty_head"
    /\ UNCHANGED <<heap, backingArray, size, headCursor, gateVars, paramVars,
                   threadNumber, index, joined, workerVars, ghostVars>>

\* emptyOut: headCursor.store(0); after it dispatchJobs is about to return
emptyOutHead ==
    /\ dpc = "empty_head"
    /\ headCursor' = 0
    /\ dpc' = "dispatch_return"
    /\ UNCHANGED <<heap, backingArray, size, tailCursor, gateVars, paramVars,
                   threadNumber, index, joined, workerVars, ghostVars>>

\* dispatchJobs returns to its caller; the next round's batch starts empty.
dispatchReturn ==
    /\ dpc = "dispatch_return"
    /\ round' = round + 1
    /\ batch' = << >>
    /\ dpc' = "idle"
    /\ UNCHANGED <<bufferVars, gateVars, paramVars, threadNumber, index, joined,
                   workerVars, executed>>

\* -------------------------------------------------------------- endThreads
\* threadNumber = min(...); if(!threadNumber) threadNumber = 1; worker_end.store(1);
endStore ==
    /\ dpc = "idle"
    /\ worker_end' = 1
    /\ joined' = 0
    /\ dpc' = "end_wake"
    /\ UNCHANGED <<bufferVars, worker_start, dispatcher_wake, paramVars, threadNumber,
                   index, workerVars, ghostVars>>

\* Mutant of endWakeAll: endThreads goes on to join without opening the start gate.
endWakeAllLost ==
    /\ dpc = "end_wake"
    /\ dpc' = "end_join"
    /\ UNCHANGED <<bufferVars, gateVars, paramVars, threadNumber, index, joined,
                   workerVars, ghostVars>>

\* wake_all(atomicArray.worker_start);
endWakeAll ==
    /\ dpc = "end_wake"
    /\ worker_start' = wake_all
    /\ dpc' = "end_join"
    /\ UNCHANGED <<bufferVars, worker_end, dispatcher_wake, paramVars, threadNumber,
                   index, joined, workerVars, ghostVars>>

\* threads[i].join(); wake_all(atomicArray.worker_start);
endJoin ==
    /\ dpc = "end_join"
    /\ joined < ClampThreadNumber(requested, hardware)
    /\ wpc[joined + 1] = "returned"
    /\ worker_start' = wake_all
    /\ joined' = joined + 1
    /\ UNCHANGED <<bufferVars, worker_end, dispatcher_wake, paramVars, threadNumber,
                   dpc, index, workerVars, ghostVars>>

\* the loop ends at i == threadNumber; delete[] threads;
endDelete ==
    /\ dpc = "end_join"
    /\ joined >= ClampThreadNumber(requested, hardware)
    /\ dpc' = "finished"
    /\ UNCHANGED <<bufferVars, gateVars, paramVars, threadNumber, index, joined,
                   workerVars, ghostVars>>

\* ----------------------------------------------------------- specifications
append == appendCursor \/ appendNew \/ appendMemcpy \/ appendDelete \/ appendStore
dispatchJobs ==
    \/ dispatchWakeAll
    \/ dispatchSleep
    \/ dispatchStore
    \/ emptyOutTail
    \/ emptyOutHead
    \/ dispatchReturn
endThreads == endStore \/ endWakeAll \/ endJoin \/ endDelete

Next ==
    \/ createThreads
    \/ appendCursor
    \/ appendNew
    \/ appendMemcpy
    \/ appendDelete
    \/ appendStore
    \/ dispatchWakeAll
    \/ dispatchSleep
    \/ dispatchStore
    \/ emptyOutTail
    \/ emptyOutHead
    \/ dispatchReturn
    \/ endStore
    \/ endWakeAll
    \/ endJoin
    \/ endDelete
    \/ \E w \in Workers : workerSleep(w)
    \/ \E w \in Workers : workerCheckEnd(w)
    \/ \E w \in Workers : fetchAdd(w)
    \/ \E w \in Workers : fetchReturn(w)
    \/ \E w \in Workers : workerCall(w)
    \/ \E w \in Workers : workerReturn(w)
    \/ \E w \in Workers : workerWake(w)

Spec == Init /\ [][Next]_vars

\* The scheduler runs every runnable thread; the caller decides whether to make
\* another call (createThreads, append, dispatchJobs, endThreads), so only the
\* steps inside a call are fair.
dispatcherRunning ==
    \/ appendNew
    \/ appendMemcpy
    \/ appendDelete
    \/ appendStore
    \/ dispatchSleep
    \/ dispatchStore
    \/ emptyOutTail
    \/ emptyOutHead
    \/ dispatchReturn
    \/ endWakeAll
    \/ endJoin
    \/ endDelete

FairSpec ==
    /\ Spec
    /\ WF_vars(dispatcherRunning)
    /\ \A w \in 1..MaxWorkers : WF_vars(threadFunction(w))

\* createThreads and endThreads alone, over every requested thread count and every
\* hardware parallelism up to the bounds.
InitClamp == Start((0 - MaxRequest)..MaxRequest, 0..MaxWorkers)

NextClamp ==
    \/ createThreads
    \/ endStore
    \/ endWakeAll
    \/ endJoin
    \/ endDelete
    \/ \E w \in Workers : workerSleep(w)
    \/ \E w \in Workers : workerCheckEnd(w)

SpecClamp == InitClamp /\ [][NextClamp]_vars

\* One round with an IntBits-wide read cursor: the batch is appended, the start gate
\* is opened and the workers run while the dispatcher waits in dispatchJobs.
NextWrap ==
    \/ createThreads
    \/ appendCursor
    \/ appendNew
    \/ appendMemcpy
    \/ appendDelete
    \/ appendStore
    \/ dispatchWakeAll
    \/ \E w \in Workers : workerSleep(w)
    \/ \E w \in Workers : workerCheckEnd(w)
    \/ \E w \in Workers : fetchAddWrap(w)
    \/ \E w \in Workers : fetchReturn(w)
    \/ \E w \in Workers : workerCall(w)
    \/ \E w \in Workers : workerReturn(w)
    \/ \E w \in Workers : workerWake(w)

SpecWrap == Init /\ [][NextWrap]_vars

\* ------------------------------------------------------------------ claims
\* The work function has been invoked on job j exactly once and has returned.
ExecutedOnce(j) ==
    /\ executed[j] = 1
    /\ \A w \in Workers : running[w] # j

InDispatchReset == dpc \in {"empty_tail", "empty_head", "dispatch_return"}

\* C1: full barrier.  When dispatchJobs returns, the work function has been invoked
\* on and has returned for every job appended before the call, each exactly once.
C1_FullBarrier ==
    dpc = "dispatch_return" => \A i \in 1..Len(batch) : ExecutedOnce(batch[i])

\* C2: exclusivity of fetch.  The work function is never invoked more than once on
\* the same appended job.
C2_NeverTwice == \A j \in JobIds : executed[j] <= 1

\* C3: round isolation.  From the return of dispatchJobs until the next append both
\* cursors are 0, as in a freshly constructed buffer.
C3_RoundIsolation ==
    (dpc = "dispatch_return" \/ (dpc = "idle" /\ round > 0 /\ batch = << >>))
        => (headCursor = 0 /\ tailCursor = 0)

\* C4: no lost wakeup.  Under fair scheduling, with work functions that return,
\* every dispatchJobs call that has opened the start gate eventually returns.
C4_DispatchReturns == (dpc = "dispatch_sleep") ~> (dpc = "dispatch_return")

\* C4 witness: a second, empty round has gone through dispatchJobs and is returning.
C4_Witness == dpc = "dispatch_return" /\ round = 1 /\ batch = << >>

\* C5: growth correctness.  After k appends in one round slot i holds the i-th
\* appended job, also when k exceeds the initial capacity, and the dispatch that
\* follows delivers all k jobs, each exactly once.
C5_GrowthDelivers ==
    /\ dpc \in {"idle", "dispatch_sleep"} =>
           \A i \in 1..Len(batch) : heap[backingArray][i] = batch[i]
    /\ (dpc = "dispatch_return" /\ Len(batch) > Len(heap[1])) =>
           \A i \in 1..Len(batch) : ExecutedOnce(batch[i])

\* The first half of C5 alone: relocation preserves every job appended so far.
SlotsHoldBatch ==
    dpc \in {"idle", "dispatch_sleep"} =>
        /\ Len(batch) <= size
        /\ \A i \in 1..Len(batch) : heap[backingArray][i] = batch[i]

\* C6: shutdown terminates.  Under fair scheduling, once endThreads has been called
\* every worker reaches the end of threadFunction and endThreads returns having
\* joined all of them.
C6_ShutdownTerminates ==
    (dpc = "end_wake") ~>
        (dpc = "finished" /\ joined = threadNumber
            /\ \A w \in Workers : wpc[w] = "returned")

\* C6 witness: endThreads has returned after at least one round, every worker joined.
C6_Witness ==
    /\ dpc = "finished"
    /\ round > 0
    /\ joined = threadNumber
    /\ \A w \in Workers : wpc[w] = "returned"

C8_ClampedAtLeastOne ==
    /\ dpc # "create" =>
           /\ threadNumber = Max(1, Min(requested, hardware))
           /\ threadNumber >= 1
           /\ Cardinality({w \in 1..MaxWorkers : wpc[w] # "unborn"}) = threadNumber
    /\ dpc = "finished" => joined = threadNumber

\* C9: when dispatchJobs resets the buffer and returns, no worker is still in its
\* drain loop or inside the work function.
C9_WorkersParkedAtReset ==
    InDispatchReset =>
        \A w \in Workers : wpc[w] \notin {"fetch", "compare", "call", "working", "wake"}

\* C10: while the dispatcher is inside append or emptyOut, no worker is inside
\* fetch or holds a job pointer obtained from fetch.
C10_NoFetchDuringAppendOrReset ==
    dpc \in {"append_new", "append_memcpy", "append_delete", "append_store", "empty_head"}
        => \A w \in Workers : wpc[w] \notin {"compare", "call", "working"}

\* The start gate is open for a round: between dispatchJobs' wake_all(worker_start)
\* and its worker_start.store(0).
GateOpenForRound == dpc \in {"dispatch_sleep", "dispatch_store"}

\* C11: publication before the gate.  Every slot a worker has obtained from fetch
\* and is about to pass to the work function was written by an append of the
\* current round before the start gate was opened for that round; in particular
\* no append is in progress on it.
C11_PublishedBeforeGate ==
    \A w \in Workers :
        wpc[w] = "call" =>
            /\ dpc \notin {"append_new", "append_memcpy", "append_delete", "append_store"}
            /\ job[w] = backingArray
            /\ windex[w] + 1 <= Len(batch)
            /\ heap[job[w]][windex[w] + 1] = batch[windex[w] + 1]

\* C12: workers are not fired early.  The start gate is nonzero only between
\* dispatchJobs' wake_all(worker_start) and its clearing store, or once endThreads
\* has issued its wake_all; so a parked worker is released only then.
C12_GateOpenOnlyInRoundOrShutdown ==
    worker_start # 0 => (GateOpenForRound \/ dpc \in {"end_join", "finished"})

\* C12 witness: in a later round the gate is open, the dispatcher is about to clear
\* it, and a worker is parked on it.
C12_Witness ==
    /\ dpc = "dispatch_store"
    /\ round >= 1
    /\ worker_start # 0
    /\ \E w \in Workers : wpc[w] = "sleep"

\* C13: no busy-waiting.  A worker that has seen fetch exhaustion and signalled the
\* done gate then stays blocked in sleep(worker_start) until the next round is
\* opened or the pool shuts down: when it arrives back at the start gate the gate
\* is closed, so it cannot pass it a second time in the same round.
C13_ParkedAfterDoneSignal ==
    [][\A w \in 1..MaxWorkers :
          (wpc[w] = "wake" /\ wpc'[w] = "sleep")
              => (~ENABLED workerSleep(w))' \/ worker_end' # 0]_vars

\* C14: exhaustion is permanent within a round.  With a wrapping IntBits-wide read
\* cursor, once the read cursor has reached the write cursor it stays there for any
\* number of further fetches (so each of them returns "no job"), and fetch never
\* returns an index outside [0, writeCursor).
C14_ExhaustionPermanent ==
    [][(GateOpenForRound /\ GateOpenForRound')
          => /\ (headCursor >= tailCursor) => (headCursor' >= tailCursor')
             /\ \A w \in 1..MaxWorkers :
                    wpc'[w] = "call" => (0 <= windex'[w] /\ windex'[w] < tailCursor')]_vars


\* C15: reset retains capacity.  The two steps of emptyOut set the write cursor and then
\* the read cursor to 0 and leave the capacity and the backing storage as they were; on
\* every step of the program the capacity does not decrease and is the initial capacity
\* (the length of the first allocation) times a power of two.
C15_ResetRetainsCapacity ==
    [][/\ size' >= size
       /\ \E k \in 0..MaxJobId : size' = Len(heap'[1]) * (2 ^ k)
       /\ (dpc = "empty_tail" /\ dpc' = "empty_head")
             => (tailCursor' = 0 /\ UNCHANGED <<size, heap, backingArray>>)
       /\ (dpc = "empty_head" /\ dpc' = "dispatch_return")
             => (headCursor' = 0 /\ tailCursor' = 0
                 /\ UNCHANGED <<size, heap, backingArray>>)]_vars

\* emptyOut has just finished in the second round on a buffer that grew in the first.
C15_Witness ==
    /\ dpc = "dispatch_return"
    /\ round = 1
    /\ size > Len(heap[1])
    /\ tailCursor = 0
    /\ headCursor = 0


InAppend == dpc \in {"append_new", "append_memcpy", "append_delete", "append_store"}

\* C16: cursor bounds.  Outside an active append the write cursor is within
\* 0..capacity, and every index fetch returns as a valid job is within the allocated
\* storage the returned pointer is based on: 0 <= index < capacity of that array.
C16_CursorBounds ==
    /\ ~InAppend => (0 <= tailCursor /\ tailCursor <= size)
    /\ \A w \in Workers :
           wpc[w] = "call" => (0 <= windex[w] /\ windex[w] < Len(heap[job[w]]))


InEndThreads == dpc \in {"end_wake", "end_join", "finished"}

\* C17: worker termination only on stop.  A worker's thread function returns only from
\* the test that follows sleep(worker_start), with the stop flag set and endThreads
\* already called; the stop flag is written only by the first step of endThreads, which
\* sets it, and is never cleared afterwards.
C17_TerminatesOnlyOnStop ==
    [][/\ \A w \in 1..MaxWorkers :
              (wpc[w] # "returned" /\ wpc'[w] = "returned")
                  => (wpc[w] = "check_end" /\ worker_end # 0 /\ InEndThreads)
       /\ worker_end' # worker_end
              => (dpc = "idle" /\ dpc' = "end_wake" /\ worker_end = 0 /\ worker_end' # 0)
       /\ InEndThreads => InEndThreads']_vars

\* After at least one round a worker has returned while endThreads is running.
C17_Witness ==
    /\ round >= 1
    /\ worker_end # 0
    /\ InEndThreads
    /\ \E w \in Workers : wpc[w] = "returned"


\* C18: the done gate is fresh each round.  At every entry to dispatchJobs, in the first
\* round and in every later one, dispatcher_wake is 0.
C18_DoneGateFreshAtEntry ==
    [][(dpc = "idle" /\ dpc' = "dispatch_sleep") => dispatcher_wake = 0]_vars


\* C19: the done signal implies all jobs claimed.  Whenever a worker executes
\* wake_all(dispatcher_wake) while the dispatcher is inside a round (gate opened, reset
\* not yet begun), the read cursor has reached the write cursor of that round's batch.
C19_DoneSignalImpliesAllClaimed ==
    [][\A w \in 1..MaxWorkers :
          (wpc[w] = "wake" /\ wpc'[w] = "sleep" /\ GateOpenForRound)
              => (tailCursor = Len(batch) /\ headCursor >= tailCursor)]_vars

====
